---- MODULE Spec2Model ----
(***************************************************************************)
(* josestg.io: the site configuration record (data/siteMetadata.js) as it  *)
(* is evaluated by the build and serve processes of package.json, the      *)
(* content documents under data/blog, and the Array and Slice programs of  *)
(* the two data-structure articles.                                        *)
(***************************************************************************)
EXTENDS Integers, Sequences, FiniteSets, TLC

VARIABLES
  env,        \* process.env: variable name -> a string value, or Undefined when unset
  pc,         \* per process: "idle" (module not yet evaluated), "loaded", "failed"
  exports,    \* per process: module.exports of data/siteMetadata.js
  loadEnv,    \* per process: the environment the module was evaluated in (history)
  allBlogs,   \* the content entries the pipeline has produced, in the order read
  heap,       \* Array article: address -> the block allocated there, or Free
  arrs,       \* Array article: the caller's Array structs, by variable name
  last,       \* Array article: the last call, its arguments and its outcome
  mem,        \* Slice article: address -> the backing array allocated there, or Free
  slice,      \* Slice article: the caller's Slice struct s
  scall,      \* Slice article: the last call, its arguments and its outcome
  work,       \* Slice article: the Slice as it started, the appends made to it and
              \*   the elements moved to new backing arrays since (history)
  main,       \* Slice article, demo: main's position, its i and its last_cap
  cout        \* Slice article, demo: the lines written to std::cout

configVars == <<env, pc, exports, loadEnv>>

contentVars == <<allBlogs>>

arrayVars == <<heap, arrs, last>>

sliceVars == <<mem, slice, scall, work, main, cout>>

vars == <<env, pc, exports, loadEnv, allBlogs, heap, arrs, last,
          mem, slice, scall, work, main, cout>>

(***************************************************************************)
(* JavaScript values: undefined, strings, and objects as the properties    *)
(* their literal declares.                                                 *)
(***************************************************************************)
Undefined == [t |-> "undefined"]

Str(s) == [t |-> "string", s |-> s]

\* props: a record, property name -> value.
Obj(props) == [t |-> "object", props |-> props]

\* An evaluation completes normally with a value, or abruptly with an error.
Normal(v) == [type |-> "normal", value |-> v]

Throw(e) == [type |-> "throw", value |-> e]

HasOwn(o, k) == o.t = "object" /\ k \in DOMAIN o.props

\* o.k: a key that is not there reads undefined.
Get(o, k) == IF HasOwn(o, k) THEN o.props[k] ELSE Undefined

\* o.k1.k2...: a path read, undefined as soon as a step is missing.
RECURSIVE GetPath(_, _)
GetPath(o, path) ==
  IF path = <<>> THEN o ELSE GetPath(Get(o, Head(path)), Tail(path))

Keys(o) == IF o.t = "object" THEN DOMAIN o.props ELSE {}

(***************************************************************************)
(* The environment.                                                        *)
(***************************************************************************)
\* How many of its sample strings an environment variable may be set to.
MaxEnvStrings == 1

GiscusVars ==
  {"NEXT_PUBLIC_GISCUS_REPO", "NEXT_PUBLIC_GISCUS_REPOSITORY_ID",
   "NEXT_PUBLIC_GISCUS_CATEGORY", "NEXT_PUBLIC_GISCUS_CATEGORY_ID"}

\* A variable the scripts set that the configuration does not read.
OtherVars == {"ANALYZE"}

EnvVars == GiscusVars \cup OtherVars

\* The sample strings of each variable: the identifiers are opaque, the
\* repository and the category are names and may also be set to another name
\* or to the empty string.
EnvStringPool ==
  [name \in EnvVars |->
     CASE name = "NEXT_PUBLIC_GISCUS_REPO"          -> <<"josestg/josestg.com", "">>
       [] name = "NEXT_PUBLIC_GISCUS_REPOSITORY_ID" -> <<"R_kgDOKc">>
       [] name = "NEXT_PUBLIC_GISCUS_CATEGORY"      -> <<"General", "Announcements">>
       [] name = "NEXT_PUBLIC_GISCUS_CATEGORY_ID"   -> <<"DIC_kwDOKc">>
       [] name = "ANALYZE"                          -> <<"true">>]

EnvValues(name) ==
  {Str(EnvStringPool[name][i]) :
     i \in {j \in 1..MaxEnvStrings : j <= Len(EnvStringPool[name])}}

\* The processes that evaluate the module: `next build` and `next start`.
Procs == {"build", "serve"}

(***************************************************************************)
(* data/siteMetadata.js                                                    *)
(***************************************************************************)
\* Mutant of EnvRead: the value is dereferenced (as in process.env.NAME.trim()),
\* which throws a TypeError when the variable is unset.
EnvReadOrThrow(e, name) ==
  IF e[name] = Undefined THEN Throw("TypeError") ELSE Normal(e[name])

\* Mutant of EnvRead: a variable that is unset reads the value of ANALYZE.
EnvReadOrAnalyze(e, name) ==
  Normal(IF e[name] = Undefined THEN e["ANALYZE"] ELSE e[name])

\* process.env.NAME: the value, undefined when unset; the read never throws.
EnvRead(e, name) == Normal(e[name])

\* Mutant of analytics: the identifier sits directly on the analytics block.
analyticsFlat == Obj([googleAnalyticsId |-> Str("G-9WRM2899TP")])

analytics ==
  Obj([googleAnalytics |-> Obj([googleAnalyticsId |-> Str("G-9WRM2899TP")])])

\* Mutant of giscusConfig: category is read from the category id's variable.
giscusConfigCrossWired(e) ==
  LET repo         == EnvRead(e, "NEXT_PUBLIC_GISCUS_REPO")
      repositoryId == EnvRead(e, "NEXT_PUBLIC_GISCUS_REPOSITORY_ID")
      categoryId   == EnvRead(e, "NEXT_PUBLIC_GISCUS_CATEGORY_ID")
  IN  Normal(Obj([
        repo         |-> repo.value,
        repositoryId |-> repositoryId.value,
        category     |-> categoryId.value,
        categoryId   |-> categoryId.value,
        mapping      |-> Str("pathname"),
        reactions    |-> Str("1"),
        metadata     |-> Str("0"),
        theme        |-> Str("light"),
        darkTheme    |-> Str("transparent_dark"),
        themeURL     |-> Str(""),
        lang         |-> Str("en")]))

giscusConfig(e) ==
  LET repo         == EnvRead(e, "NEXT_PUBLIC_GISCUS_REPO")
      repositoryId == EnvRead(e, "NEXT_PUBLIC_GISCUS_REPOSITORY_ID")
      category     == EnvRead(e, "NEXT_PUBLIC_GISCUS_CATEGORY")
      categoryId   == EnvRead(e, "NEXT_PUBLIC_GISCUS_CATEGORY_ID")
      reads        == <<repo, repositoryId, category, categoryId>>
      thrown       == {i \in 1..4 : reads[i].type = "throw"}
  IN  IF thrown # {}
      THEN reads[CHOOSE i \in thrown : \A j \in thrown : i <= j]
      ELSE Normal(Obj([
             repo         |-> repo.value,
             repositoryId |-> repositoryId.value,
             category     |-> category.value,
             categoryId   |-> categoryId.value,
             mapping      |-> Str("pathname"),
             reactions    |-> Str("1"),
             metadata     |-> Str("0"),
             theme        |-> Str("light"),
             darkTheme    |-> Str("transparent_dark"),
             themeURL     |-> Str(""),
             lang         |-> Str("en")]))

\* Mutant of comments: the provider is switched off when no repository is set.
commentsOffWithoutRepo(giscus) ==
  Obj([provider     |-> IF Get(giscus, "repo") = Undefined THEN Str("") ELSE Str("giscus"),
       giscusConfig |-> giscus])

comments(giscus) == Obj([provider |-> Str("giscus"), giscusConfig |-> giscus])

\* Mutant of search: the index path carries a counter of the loads so far.
searchStamped ==
  Obj([provider   |-> Str("kbar"),
       kbarConfig |-> Obj([searchDocumentsPath |->
                             IF \E p \in Procs : pc[p] = "loaded"
                             THEN Str("search-1.json") ELSE Str("search-0.json")])])

\* Mutant of search: the provider is selected without its configuration.
searchWithoutConfig == Obj([provider |-> Str("kbar")])

search ==
  Obj([provider   |-> Str("kbar"),
       kbarConfig |-> Obj([searchDocumentsPath |-> Str("search.json")])])

newsletter == Obj([provider |-> Str("mailchimp")])

\* The object literal of lines 2-50, evaluated in environment e.
siteMetadata(e) ==
  LET giscus == giscusConfig(e)
  IN  IF giscus.type = "throw" THEN giscus
      ELSE Normal(Obj([
             title        |-> Str("josestg.com"),
             author       |-> Str("Jose Sitanggang"),
             headerTitle  |-> Str("josestg.com"),
             description  |-> Str("My thoughts on software engineering and computer science"),
             language     |-> Str("en-us"),
             theme        |-> Str("system"),
             siteUrl      |-> Str("https://josestg.com"),
             siteRepo     |-> Str("https://github.com/josestg/josestg.com"),
             siteLogo     |-> Str("/static/images/logo.svg"),
             socialBanner |-> Str("/static/images/twitter-card.png"),
             email        |-> Str("josealfredositanggang@gmail.com"),
             github       |-> Str("https://github.com/josestg"),
             twitter      |-> Str("https://twitter.com/@_josestg"),
             youtube      |-> Str("https://youtube.com/@josestg"),
             linkedin     |-> Str("https://www.linkedin.com/in/josestg/"),
             threads      |-> Str("https://threads.net/@_josestg"),
             locale       |-> Str("en-US"),
             analytics    |-> analytics,
             comments     |-> comments(giscus.value),
             search       |-> search,
             newsletter   |-> newsletter]))

(***************************************************************************)
(* The configuration's state machine.                                      *)
(***************************************************************************)
\* The environment sets a variable (the shell, cross-env, the hosting platform).
Setenv(name, v) ==
  /\ env[name] # v
  /\ env' = [env EXCEPT ![name] = v]
  /\ UNCHANGED <<pc, exports, loadEnv, contentVars, arrayVars, sliceVars>>

\* The environment removes a variable.
Unsetenv(name) ==
  /\ env[name] # Undefined
  /\ env' = [env EXCEPT ![name] = Undefined]
  /\ UNCHANGED <<pc, exports, loadEnv, contentVars, arrayVars, sliceVars>>

\* Mutant of Load: the module is evaluated again on every import.
LoadOnEveryImport(p) ==
  /\ pc[p] # "failed"
  /\ exports' = [exports EXCEPT ![p] = siteMetadata(env).value]
  /\ pc' = [pc EXCEPT ![p] = "loaded"]
  /\ loadEnv' = [loadEnv EXCEPT ![p] = env]
  /\ UNCHANGED <<env, contentVars, arrayVars, sliceVars>>

\* Mutant of Load: the load writes a default for the repository back into the
\* environment (process.env.NEXT_PUBLIC_GISCUS_REPO ||= ...).
LoadWritingDefault(p) ==
  /\ pc[p] = "idle"
  /\ exports' = [exports EXCEPT ![p] = siteMetadata(env).value]
  /\ pc' = [pc EXCEPT ![p] = "loaded"]
  /\ loadEnv' = [loadEnv EXCEPT ![p] = env]
  /\ env' = IF env["NEXT_PUBLIC_GISCUS_REPO"] = Undefined
            THEN [env EXCEPT !["NEXT_PUBLIC_GISCUS_REPO"] = Str("josestg/blog")]
            ELSE env
  /\ UNCHANGED <<contentVars, arrayVars, sliceVars>>

\* Process p evaluates the module: `const siteMetadata = {...}` is bound once,
\* and `module.exports = siteMetadata` publishes it.
Load(p) ==
  /\ pc[p] = "idle"
  /\ LET c == siteMetadata(env)
     IN  IF c.type = "normal"
         THEN /\ exports' = [exports EXCEPT ![p] = c.value]
              /\ pc' = [pc EXCEPT ![p] = "loaded"]
         ELSE /\ exports' = exports
              /\ pc' = [pc EXCEPT ![p] = "failed"]
  /\ loadEnv' = [loadEnv EXCEPT ![p] = env]
  /\ UNCHANGED <<env, contentVars, arrayVars, sliceVars>>

ConfigIdle ==
  /\ env = [name \in EnvVars |-> Undefined]
  /\ pc = [p \in Procs |-> "idle"]
  /\ exports = [p \in Procs |-> Undefined]
  /\ loadEnv = [p \in Procs |-> env]

(***************************************************************************)
(* The content documents: the front-matter block and the first lines of    *)
(* the body of each file, line by line.                                    *)
(***************************************************************************)
Delim == [kind |-> "delim"]

Field(k, v) == [kind |-> "field", key |-> k, value |-> v]

Blank == [kind |-> "blank"]

Text(s) == [kind |-> "text", text |-> s]

asd_array ==
  [path  |-> "src/data/blog/asd-array.mdx",
   lines |-> <<
     Delim,
     Field("title", "ASD #00: Implementasi Array dari Nol dengan C++"),
     Field("date", "2023-08-22"),
     Field("tags", <<"algorithm", "data-structure", "c++">>),
     Field("draft", FALSE),
     Field("summary", "Melalui implementasi ini, kita akan memahami mengapa array sangat efisien dalam menyimpan dan mengakses data, serta mengapa array memiliki ukuran yang tetap."),
     Field("images", <<>>),
     Delim,
     Blank,
     Text("Array adalah struktur data yang menampung kumpulan data ...")>>]

\* Mutant of go_design_pattern: the stub was copied from the slice article and
\* kept its title.
go_design_pattern_copied ==
  [path  |-> "src/data/blog/go-design-pattern.mdx",
   lines |-> <<
     Delim,
     Field("title", "Exploring Go Slice Internal Implementation in C++"),
     Field("date", "2023-10-23"),
     Field("tags", <<"go", "design-pattern">>),
     Field("draft", FALSE),
     Field("summary", "Dive into the practical world of design patterns in Go with a special focus on the Adapter pattern, part of our \"Practical Design Patterns in Go\" blog series."),
     Field("images", <<>>),
     Delim,
     Blank,
     Text("# Adapter")>>]

go_design_pattern ==
  [path  |-> "src/data/blog/go-design-pattern.mdx",
   lines |-> <<
     Delim,
     Field("title", "Practical Design Patterns in Go: Mastering the Adapter Pattern"),
     Field("date", "2023-10-23"),
     Field("tags", <<"go", "design-pattern">>),
     Field("draft", FALSE),
     Field("summary", "Dive into the practical world of design patterns in Go with a special focus on the Adapter pattern, part of our \"Practical Design Patterns in Go\" blog series."),
     Field("images", <<>>),
     Delim,
     Blank,
     Text("# Adapter")>>]

bitfield_rbac ==
  [path  |-> "src/data/blog/bitfield-rbac.mdx",
   lines |-> <<
     Delim,
     Field("title", "Bit Field Role-based Access Control (RBAC)"),
     Field("date", "2023-09-28"),
     Field("tags", <<"algorithm", "bitfield", "bit-manipulation">>),
     Field("draft", FALSE),
     Field("summary", "A compact and high-performance RBAC algorithm."),
     Field("images", <<>>),
     Delim,
     Blank,
     Text("Role-based Access Control (RBAC) is a mechanism that restricts system access ...")>>]

go_slice ==
  [path  |-> "src/unnamed/part_000",
   lines |-> <<
     Delim,
     Field("title", "Exploring Go Slice Internal Implementation in C++"),
     Field("date", "2023-10-22"),
     Field("tags", <<"go", "c++", "slice", "dynamic-array", "memory-allocation">>),
     Field("draft", FALSE),
     Field("summary", "Unveiling the Inner Workings of Slices in Go by Reimplementing in C++."),
     Field("images", <<>>),
     Delim,
     Blank,
     Text("This blog is based on what I learned from reading ...")>>]

xor_uniqueness ==
  [path  |-> "src/unnamed/part_001",
   lines |-> <<
     Delim,
     Field("title", "A Simple Proof of XOR Uniqueness"),
     Field("date", "2023-09-23"),
     Field("tags", <<"algorithm", "math">>),
     Field("draft", FALSE),
     Field("summary", "When computers are too slow to prove correctness, mathematics rides to the rescue. That's why we need math -- even computers could use a little mathematical magic!"),
     Field("images", <<>>),
     Delim,
     Blank,
     Text("## Motivation")>>]

Documents == {asd_array, go_design_pattern, bitfield_rbac, go_slice, xor_uniqueness}

(***************************************************************************)
(* The content pipeline's reading of a document: the block between the     *)
(* opening delimiter and the next one is the front matter, the rest the    *)
(* body.                                                                   *)
(***************************************************************************)
Delims(doc) == {i \in 1..Len(doc.lines) : doc.lines[i] = Delim}

\* The line that closes the front matter; 0 when the block is not there.
FrontMatterEnd(doc) ==
  IF Len(doc.lines) >= 1 /\ doc.lines[1] = Delim /\ Delims(doc) \ {1} # {}
  THEN CHOOSE i \in Delims(doc) \ {1} : \A j \in Delims(doc) \ {1} : i <= j
  ELSE 0

FrontMatter(doc) == SubSeq(doc.lines, 2, FrontMatterEnd(doc) - 1)

Body(doc) ==
  IF FrontMatterEnd(doc) = 0 THEN doc.lines
  ELSE SubSeq(doc.lines, FrontMatterEnd(doc) + 1, Len(doc.lines))

\* The places of the front matter that declare key k.
FieldLines(doc, k) ==
  {i \in 1..Len(FrontMatter(doc)) :
     FrontMatter(doc)[i].kind = "field" /\ FrontMatter(doc)[i].key = k}

Declares(doc, k) == FieldLines(doc, k) # {}

FieldValue(doc, k) == FrontMatter(doc)[CHOOSE i \in FieldLines(doc, k) : TRUE].value

Range(seq) == {seq[i] : i \in 1..Len(seq)}

\* The entry the pipeline produces: identity is the file path.
Entry(doc) ==
  [slug  |-> doc.path,
   title |-> IF Declares(doc, "title") THEN FieldValue(doc, "title") ELSE "",
   tags  |-> IF Declares(doc, "tags") THEN Range(FieldValue(doc, "tags")) ELSE {}]

ContentIdle == allBlogs = <<>>

\* The pipeline reads one more document of the repository.
ReadDocument(doc) ==
  /\ \A i \in 1..Len(allBlogs) : allBlogs[i].slug # doc.path
  /\ allBlogs' = Append(allBlogs, Entry(doc))
  /\ UNCHANGED <<configVars, arrayVars, sliceVars>>

\* The document an entry was read from.
DocumentOf(entry) == CHOOSE doc \in Documents : doc.path = entry.slug

(***************************************************************************)
(* The Array article (data/blog/asd-array.mdx): a heap of blocks, the      *)
(* Array struct {_ptr, _len} and its functions.                            *)
(***************************************************************************)
\* The largest length a caller asks make for.
MaxLen == 2

\* Elements range over 0..MaxVal.
MaxVal == 1

\* The number of addresses calloc can hand out.
HeapSize == 2

\* The caller's Array variables.
ArrVars == {"a", "b"}

Addresses == 1..HeapSize

nullptr == 0

Free == [live |-> FALSE, cells |-> <<>>]

Block(cells) == [live |-> TRUE, cells |-> cells]

Array(ptr, len) == [_ptr |-> ptr, _len |-> len]

Min(x, y) == IF x <= y THEN x ELSE y

\* Mutant of Zeroed: the block is not cleared (malloc in place of calloc).
Uninitialised(num) == [i \in 1..num |-> MaxVal]

\* The contents of a block calloc returns: num elements, all zero.
Zeroed(num) == [i \in 1..num |-> 0]

\* std::calloc(num, sizeof(int)): every result it may give, as the pointer and
\* the heap after the call. It may fail at any time and returns a null pointer
\* then; a negative num is a size no heap holds; a block is placed at the
\* lowest free address.
calloc(h, num) ==
  LET free    == {a \in Addresses : ~h[a].live}
      lowest  == CHOOSE a \in free : \A b \in free : a <= b
      failure == [ptr |-> nullptr, heap |-> h]
  IN  IF num < 0 \/ free = {}
      THEN {failure}
      ELSE {failure,
            [ptr |-> lowest, heap |-> [h EXCEPT ![lowest] = Block(Zeroed(num))]]}

\* Array make(int n): every outcome, as the completion and the heap after it.
make(h, n) ==
  {IF r.ptr = nullptr
   THEN [result |-> Throw("bad_alloc"), heap |-> r.heap]
   ELSE [result |-> Normal(Array(r.ptr, n)), heap |-> r.heap] : r \in calloc(h, n)}

\* *(ptr + i)
Deref(h, ptr, i) == h[ptr].cells[i + 1]

\* int get(const Array& arr, int i)
get(h, arr, i) ==
  IF arr._ptr = nullptr \/ i < 0 \/ i >= arr._len
  THEN Throw("out_of_range")
  ELSE Normal(Deref(h, arr._ptr, i))

\* Mutant of set: an index out of range is ignored in silence.
setIgnoringOutOfRange(h, arr, i, v) ==
  IF arr._ptr = nullptr \/ i < 0 \/ i >= arr._len
  THEN [result |-> Normal(<<>>), heap |-> h]
  ELSE [result |-> Normal(<<>>),
        heap   |-> [h EXCEPT ![arr._ptr].cells[i + 1] = v]]

\* void set(Array& arr, int i, int v): the completion and the heap after it.
set(h, arr, i, v) ==
  IF arr._ptr = nullptr \/ i < 0 \/ i >= arr._len
  THEN [result |-> Throw("out_of_range"), heap |-> h]
  ELSE [result |-> Normal(<<>>),
        heap   |-> [h EXCEPT ![arr._ptr].cells[i + 1] = v]]

\* int length(const Array& arr)
length(arr) == arr._len

\* The loop of copy from index i on: set(dst, i, get(src, i)) for i < k.
RECURSIVE copyLoop(_, _, _, _, _)
copyLoop(h, src, dst, i, k) ==
  IF i >= k THEN [result |-> Normal(k), heap |-> h]
  ELSE LET g == get(h, src, i)
       IN  IF g.type = "throw" THEN [result |-> g, heap |-> h]
           ELSE LET s == set(h, dst, i, g.value)
                IN  IF s.result.type = "throw" THEN s
                    ELSE copyLoop(s.heap, src, dst, i + 1, k)

\* Mutant of copy: the loop runs over the whole source (k = length(src)).
copyWholeSource(h, src, dst) == copyLoop(h, src, dst, 0, length(src))

\* Mutant of copy: the destination is cleared behind the copied elements.
copyClearingRest(h, src, dst) ==
  LET k == Min(length(src), length(dst))
      o == copyLoop(h, src, dst, 0, k)
  IN  [result |-> o.result,
       heap   |-> IF dst._ptr = nullptr THEN o.heap
                  ELSE [o.heap EXCEPT ![dst._ptr].cells =
                          [i \in 1..dst._len |-> IF i <= k THEN @[i] ELSE 0]]]

\* int copy(const Array& src, Array& dst)
copy(h, src, dst) == copyLoop(h, src, dst, 0, Min(length(src), length(dst)))

\* Mutant of clone: the struct is copied and the block is shared (return arr).
cloneShallow(h, arr) == {[result |-> Normal(arr), heap |-> h]}

\* Array clone(const Array& arr): every outcome.
clone(h, arr) ==
  {IF m.result.type = "throw" THEN m
   ELSE LET c == copy(m.heap, arr, m.result.value)
        IN  IF c.result.type = "throw" THEN c
            ELSE [result |-> m.result, heap |-> c.heap] : m \in make(h, length(arr))}

\* void dealloc(Array& arr): the struct and the heap after it; free(nullptr)
\* does nothing.
dealloc(h, arr) ==
  [arr  |-> Array(nullptr, 0),
   heap |-> IF arr._ptr = nullptr THEN h ELSE [h EXCEPT ![arr._ptr] = Free]]

Call(op, args, result) == [op |-> op, args |-> args, result |-> result]

ArrayIdle ==
  /\ heap = [a \in Addresses |-> Free]
  /\ arrs = [x \in ArrVars |-> Array(nullptr, 0)]
  /\ last = Call("none", <<>>, Normal(<<>>))

\* x = make(n), for a variable that owns no block.
CallMake(x, n) ==
  /\ arrs[x]._ptr = nullptr
  /\ \E o \in make(heap, n) :
       /\ heap' = o.heap
       /\ arrs' = IF o.result.type = "normal"
                  THEN [arrs EXCEPT ![x] = o.result.value] ELSE arrs
       /\ last' = Call("make", <<n>>, o.result)
  /\ UNCHANGED <<configVars, contentVars, sliceVars>>

\* get(x, i)
CallGet(x, i) ==
  /\ last' = Call("get", <<x, i>>, get(heap, arrs[x], i))
  /\ UNCHANGED <<heap, arrs, configVars, contentVars, sliceVars>>

\* set(x, i, v)
CallSet(x, i, v) ==
  /\ LET o == set(heap, arrs[x], i, v)
     IN  /\ heap' = o.heap
         /\ last' = Call("set", <<x, i, v>>, o.result)
  /\ UNCHANGED <<arrs, configVars, contentVars, sliceVars>>

\* copy(x, y)
CallCopy(x, y) ==
  /\ LET o == copy(heap, arrs[x], arrs[y])
     IN  /\ heap' = o.heap
         /\ last' = Call("copy", <<x, y>>, o.result)
  /\ UNCHANGED <<arrs, configVars, contentVars, sliceVars>>

\* y = clone(x), for a variable y that owns no block.
CallClone(x, y) ==
  /\ x # y
  /\ arrs[y]._ptr = nullptr
  /\ \E o \in clone(heap, arrs[x]) :
       /\ heap' = o.heap
       /\ arrs' = IF o.result.type = "normal"
                  THEN [arrs EXCEPT ![y] = o.result.value] ELSE arrs
       /\ last' = Call("clone", <<x, y>>, o.result)
  /\ UNCHANGED <<configVars, contentVars, sliceVars>>

\* dealloc(x)
CallDealloc(x) ==
  /\ LET o == dealloc(heap, arrs[x])
     IN  /\ heap' = o.heap
         /\ arrs' = [arrs EXCEPT ![x] = o.arr]
  /\ last' = Call("dealloc", <<x>>, Normal(<<>>))
  /\ UNCHANGED <<configVars, contentVars, sliceVars>>

ArrayNext ==
  \/ \E x \in ArrVars : \E n \in -1..MaxLen : CallMake(x, n)
  \/ \E x \in ArrVars : \E i \in -1..MaxLen : CallGet(x, i)
  \/ \E x \in ArrVars : \E i \in -1..MaxLen : \E v \in 0..MaxVal : CallSet(x, i, v)
  \/ \E x \in ArrVars : \E y \in ArrVars : CallCopy(x, y)
  \/ \E x \in ArrVars : \E y \in ArrVars : CallClone(x, y)
  \/ \E x \in ArrVars : CallDealloc(x)

(***************************************************************************)
(* The Slice article: the Slice struct {data, len, cap}, its functions and *)
(* the demo program.                                                       *)
(***************************************************************************)
\* The largest number of appends a caller makes to its Slice.
MaxAppends == 9

\* The lengths and the capacities a caller asks make for.
SliceLens == -1..1

SliceCaps == -1..2

\* sizeof(Slice), as the demo prints it.
sizeof_Slice == 16

\* The content of memory that was allocated and never written.
Indeterminate == -1

Slice(data, len, cap) == [data |-> data, len |-> len, cap |-> cap]

Max(x, y) == IF x >= y THEN x ELSE y

\* Mutant of realloc: the new block does not take the old block's contents
\* over (malloc and free in place of realloc).
reallocWithoutCopy(h, ptr, num) ==
  LET free    == {a \in Addresses : ~h[a].live}
      lowest  == CHOOSE a \in free : \A b \in free : a <= b
      fresh   == [i \in 1..num |-> Indeterminate]
      failure == [ptr |-> nullptr, heap |-> h, copied |-> 0]
  IN  IF free = {} THEN {failure}
      ELSE {failure,
            [ptr    |-> lowest,
             heap   |-> [a \in Addresses |->
                           IF a = lowest THEN Block(fresh)
                           ELSE IF a = ptr THEN Free ELSE h[a]],
             copied |-> 0]}

\* realloc(ptr, num * sizeof(int)): every result it may give, as the pointer,
\* the heap after the call and the number of elements it copied. It may fail
\* (the old block stays), grow the block where it is, or allocate a new block
\* at the lowest free address, copy the old contents there and free the old
\* block; the added part is not initialised. realloc(nullptr, n) allocates.
realloc(h, ptr, num) ==
  LET free    == {a \in Addresses : ~h[a].live}
      lowest  == CHOOSE a \in free : \A b \in free : a <= b
      old     == IF ptr = nullptr THEN <<>> ELSE h[ptr].cells
      grown   == [i \in 1..num |-> IF i <= Len(old) THEN old[i] ELSE Indeterminate]
      failure == [ptr |-> nullptr, heap |-> h, copied |-> 0]
      inplace == IF ptr = nullptr THEN {}
                 ELSE {[ptr    |-> ptr,
                        heap   |-> [h EXCEPT ![ptr] = Block(grown)],
                        copied |-> 0]}
      moved   == IF free = {} THEN {}
                 ELSE {[ptr    |-> lowest,
                        heap   |-> [a \in Addresses |->
                                      IF a = lowest THEN Block(grown)
                                      ELSE IF a = ptr THEN Free ELSE h[a]],
                        copied |-> Len(old)]}
  IN  {failure} \cup inplace \cup moved

\* Mutant of makeSlice: the capacity is not raised to 1.
makeSliceUnclamped(h, len, cap) ==
  IF len > cap
  THEN {[result |-> Throw("make: len > cap"), heap |-> h]}
  ELSE {IF r.ptr = nullptr
        THEN [result |-> Throw("make: out of memory"), heap |-> r.heap]
        ELSE [result |-> Normal(Slice(r.ptr, Max(len, 0), cap)), heap |-> r.heap] :
          r \in calloc(h, cap)}

\* Slice make(int len, int cap): every outcome, as the completion and the heap
\* after it.
makeSlice(h, len, cap) ==
  IF len > cap
  THEN {[result |-> Throw("make: len > cap"), heap |-> h]}
  ELSE LET len1 == Max(len, 0)
           cap1 == Max(cap, 1)
       IN  {IF r.ptr = nullptr
            THEN [result |-> Throw("make: out of memory"), heap |-> r.heap]
            ELSE [result |-> Normal(Slice(r.ptr, len1, cap1)), heap |-> r.heap] :
              r \in calloc(h, cap1)}

\* void set_value(Slice &s, int index, int value)
set_value(h, sl, index, value) ==
  IF index < 0 \/ index >= sl.len
  THEN [result |-> Throw("out_of_range"), heap |-> h]
  ELSE [result |-> Normal(<<>>),
        heap   |-> [h EXCEPT ![sl.data].cells[index + 1] = value]]

\* int get_value(const Slice &s, int index)
get_value(h, sl, index) ==
  IF index < 0 \/ index >= sl.len
  THEN Throw("out_of_range")
  ELSE Normal(h[sl.data].cells[index + 1])

\* to_string: the elements get_value reads at 0..len-1, in order.
to_string(h, sl) == [j \in 1..sl.len |-> get_value(h, sl, j - 1).value]

\* operator<<: the length, the capacity and the elements of the Slice.
Show(h, sl) == [len |-> sl.len, cap |-> sl.cap, data |-> to_string(h, sl)]

\* The rest of append once there is room: s.len++, set_value(s, s.len - 1, v).
appendValue(g, v) ==
  IF g.result.type = "throw" THEN g
  ELSE LET s1 == [g.result.value EXCEPT !.len = @ + 1]
           w  == set_value(g.heap, s1, s1.len - 1, v)
       IN  [result |-> IF w.result.type = "throw" THEN w.result ELSE Normal(s1),
            heap   |-> w.heap,
            copied |-> g.copied]

\* The growth step of append to the capacity new_cap.
grow(h, sl, new_cap) ==
  {IF r.ptr = nullptr
   THEN [result |-> Throw("grow: out of memory"), heap |-> r.heap, copied |-> 0]
   ELSE [result |-> Normal(Slice(r.ptr, sl.len, new_cap)),
         heap   |-> r.heap,
         copied |-> r.copied] : r \in realloc(h, sl.data, new_cap)}

\* Mutant of append: the backing array grows by one element.
appendGrowingByOne(h, sl, v) ==
  {appendValue(g, v) :
     g \in IF sl.len = sl.cap
           THEN grow(h, sl, sl.cap + 1)
           ELSE {[result |-> Normal(sl), heap |-> h, copied |-> 0]}}

\* Mutant of append: the backing array is reallocated on every append.
appendAlwaysGrowing(h, sl, v) ==
  {appendValue(g, v) : g \in grow(h, sl, Max(2 * sl.cap, 1))}

\* Slice append(Slice s, int v): every outcome, as the completion (the Slice
\* returned), the heap after it and the number of elements realloc copied.
append(h, sl, v) ==
  {appendValue(g, v) :
     g \in IF sl.len = sl.cap
           THEN grow(h, sl, Max(2 * sl.cap, 1))
           ELSE {[result |-> Normal(sl), heap |-> h, copied |-> 0]}}

Started(sl) == [len |-> sl.len, cap |-> sl.cap, appends |-> 0, copied |-> 0]

Line(text, value) == [text |-> text, value |-> value]

SliceIdle ==
  /\ mem = [a \in Addresses |-> Free]
  /\ slice = Slice(nullptr, 0, 0)
  /\ scall = Call("none", <<>>, Normal(<<>>))
  /\ work = Started(slice)
  /\ main = [pc |-> "start", i |-> 0, last_cap |-> 0]
  /\ cout = <<>>

\* s = make(len, cap), for a variable that holds no Slice yet.
CallMakeSlice(len, cap) ==
  /\ slice.data = nullptr
  /\ \E o \in makeSlice(mem, len, cap) :
       /\ mem' = o.heap
       /\ slice' = IF o.result.type = "normal" THEN o.result.value ELSE slice
       /\ scall' = Call("make", <<len, cap>>, o.result)
       /\ work' = Started(slice')
  /\ UNCHANGED <<main, cout, configVars, contentVars, arrayVars>>

\* s = append(s, v)
CallAppend(v) ==
  /\ work.appends < MaxAppends
  /\ \E o \in append(mem, slice, v) :
       /\ mem' = o.heap
       /\ slice' = IF o.result.type = "normal" THEN o.result.value ELSE slice
       /\ scall' = Call("append", <<v>>, o.result)
       /\ work' = [work EXCEPT
                     !.appends = IF o.result.type = "normal" THEN @ + 1 ELSE @,
                     !.copied  = @ + o.copied]
  /\ UNCHANGED <<main, cout, configVars, contentVars, arrayVars>>

\* A caller that makes a Slice and appends to it; the values it appends are
\* the smallest and the largest element value.
SliceNext ==
  \/ \E len \in SliceLens : \E cap \in SliceCaps : CallMakeSlice(len, cap)
  \/ \E v \in {0, MaxVal} : CallAppend(v)

\* main, line 152: Slice s = make(0, 1), and the two lines printed after it.
\* An exception that nothing catches ends the program.
DemoMake ==
  /\ main.pc = "start"
  /\ \E o \in makeSlice(mem, 0, 1) :
       /\ mem' = o.heap
       /\ IF o.result.type = "throw"
          THEN /\ main' = [main EXCEPT !.pc = "terminated"]
               /\ UNCHANGED <<slice, work, cout>>
          ELSE /\ slice' = o.result.value
               /\ work' = Started(slice')
               /\ cout' = cout \o <<Line("slice created", Show(mem', slice')),
                                    Line("size of slice", sizeof_Slice)>>
               /\ main' = [pc |-> "loop", i |-> 0, last_cap |-> slice'.cap]
  /\ UNCHANGED <<scall, configVars, contentVars, arrayVars>>

\* main, lines 157-164: one turn of the loop.
DemoAppend ==
  /\ main.pc = "loop"
  /\ main.i < 10
  /\ \E o \in append(mem, slice, main.i) :
       /\ mem' = o.heap
       /\ work' = [work EXCEPT
                     !.appends = IF o.result.type = "normal" THEN @ + 1 ELSE @,
                     !.copied  = @ + o.copied]
       /\ IF o.result.type = "throw"
          THEN /\ main' = [main EXCEPT !.pc = "terminated"]
               /\ cout' = Append(cout, Line("append value", main.i))
               /\ slice' = slice
          ELSE /\ slice' = o.result.value
               /\ cout' = cout \o <<Line("append value", main.i)>> \o
                            (IF slice'.cap # main.last_cap
                             THEN <<Line("slice capacity changed", Show(mem', slice'))>>
                             ELSE <<>>)
               /\ main' = [main EXCEPT !.i = @ + 1, !.last_cap = slice'.cap]
  /\ UNCHANGED <<scall, configVars, contentVars, arrayVars>>

\* main, lines 166-172: the loop is over; the Slice is printed, element 0 is
\* set to 100 and the Slice is printed again. (free_slice, called last, is not
\* defined in the article.)
DemoUpdate ==
  /\ main.pc = "loop"
  /\ main.i >= 10
  /\ LET o == set_value(mem, slice, 0, 100)
     IN  /\ mem' = o.heap
         /\ IF o.result.type = "throw"
            THEN /\ main' = [main EXCEPT !.pc = "terminated"]
                 /\ cout' = cout \o <<Line("slice", Show(mem, slice)),
                                      Line("updating slice[0] to", 100)>>
            ELSE /\ main' = [main EXCEPT !.pc = "done"]
                 /\ cout' = cout \o <<Line("slice", Show(mem, slice)),
                                      Line("updating slice[0] to", 100),
                                      Line("slice after update", Show(mem', slice)),
                                      Line("size of slice", sizeof_Slice)>>
  /\ UNCHANGED <<slice, scall, work, configVars, contentVars, arrayVars>>

DemoNext == DemoMake \/ DemoAppend \/ DemoUpdate

(***************************************************************************)
(* The specifications.                                                     *)
(***************************************************************************)
Init == ConfigIdle /\ ContentIdle /\ ArrayIdle /\ SliceIdle

Next ==
  \/ \E name \in GiscusVars : \E v \in EnvValues(name) : Setenv(name, v)
  \/ \E name \in GiscusVars : Unsetenv(name)
  \/ \E p \in Procs : Load(p)

Spec == Init /\ [][Next]_vars

ContentNext == \E doc \in Documents : ReadDocument(doc)

ContentSpec == Init /\ [][ContentNext]_vars

ArraySpec == Init /\ [][ArrayNext]_vars

SliceSpec == Init /\ [][SliceNext]_vars

DemoSpec == Init /\ [][DemoNext]_vars

\* The configuration in an environment in which the scripts' own variable
\* (ANALYZE=true of the analyze script) is set and unset as well.
EnvNext ==
  \/ Next
  \/ \E name \in OtherVars : \E v \in EnvValues(name) : Setenv(name, v)
  \/ \E name \in OtherVars : Unsetenv(name)

EnvSpec == Init /\ [][EnvNext]_vars

(***************************************************************************)
(* The claims.                                                             *)
(***************************************************************************)
Loaded(p) == pc[p] = "loaded"

\* The giscusConfig field each environment variable is read into.
GiscusField ==
  [name \in GiscusVars |->
     CASE name = "NEXT_PUBLIC_GISCUS_REPO"          -> "repo"
       [] name = "NEXT_PUBLIC_GISCUS_REPOSITORY_ID" -> "repositoryId"
       [] name = "NEXT_PUBLIC_GISCUS_CATEGORY"      -> "category"
       [] name = "NEXT_PUBLIC_GISCUS_CATEGORY_ID"   -> "categoryId"]

GiscusConfigOf(p) == GetPath(exports[p], <<"comments", "giscusConfig">>)

\* C1: whichever of the four NEXT_PUBLIC_GISCUS_* variables are unset when the
\* configuration is loaded, the load does not fail, and the giscusConfig field
\* of each unset variable is undefined.
C1_UnsetVariablesLoadAsUndefined ==
  \A p \in Procs :
    /\ pc[p] # "failed"
    /\ Loaded(p) =>
         \A name \in GiscusVars :
           loadEnv[p][name] = Undefined =>
             Get(GiscusConfigOf(p), GiscusField[name]) = Undefined

\* C1 witness: a load in an environment with the repository unset and the
\* category set.
C1_Witness ==
  /\ Loaded("build")
  /\ loadEnv["build"]["NEXT_PUBLIC_GISCUS_REPO"] = Undefined
  /\ loadEnv["build"]["NEXT_PUBLIC_GISCUS_CATEGORY"] # Undefined
  /\ GetPath(exports["build"], <<"comments", "giscusConfig", "category">>) # Undefined

\* C2: two loads in the same environment yield equal records, field by field.
C2_LoadIsIdempotent ==
  \A p, q \in Procs :
    (Loaded(p) /\ Loaded(q) /\ loadEnv[p] = loadEnv[q]) => exports[p] = exports[q]

\* C2 witness: both processes have loaded in one environment in which a
\* variable is set.
C2_Witness ==
  /\ Loaded("build") /\ Loaded("serve")
  /\ loadEnv["build"] = loadEnv["serve"]
  /\ loadEnv["build"]["NEXT_PUBLIC_GISCUS_REPOSITORY_ID"] # Undefined

\* C3: once a process has loaded the record, no step changes any field of it,
\* whatever happens to the environment afterwards.
C3_RecordIsWriteOnce ==
  [][\A p \in Procs : Loaded(p) => (pc'[p] = "loaded" /\ exports'[p] = exports[p])]_vars

\* C3 witness: the environment has changed after the load and the record still
\* holds the values it was loaded with.
C3_Witness ==
  /\ Loaded("serve")
  /\ env["NEXT_PUBLIC_GISCUS_CATEGORY_ID"] # loadEnv["serve"]["NEXT_PUBLIC_GISCUS_CATEGORY_ID"]
  /\ Get(GiscusConfigOf("serve"), "categoryId") = loadEnv["serve"]["NEXT_PUBLIC_GISCUS_CATEGORY_ID"]

RecognizedKeys ==
  {<<"title">>, <<"author">>, <<"siteUrl">>, <<"socialBanner">>,
   <<"comments", "provider">>, <<"search", "provider">>, <<"newsletter", "provider">>}

\* C4: in every environment each recognized key is a property of the record (a
\* record holds a key once), holds a non-empty string, and holds the same
\* string in every load.
C4_RecognizedKeysAreConstant ==
  \A p \in Procs : Loaded(p) =>
    \A path \in RecognizedKeys :
      LET v == GetPath(exports[p], path)
      IN  /\ \A n \in 1..Len(path) :
               HasOwn(GetPath(exports[p], SubSeq(path, 1, n - 1)), path[n])
          /\ v.t = "string"
          /\ v.s # ""
          /\ \A q \in Procs \ {p} : Loaded(q) => GetPath(exports[q], path) = v

\* C4 witness: two loads in environments that differ in every variable.
C4_Witness ==
  /\ Loaded("build") /\ Loaded("serve")
  /\ \A name \in GiscusVars : loadEnv["build"][name] # loadEnv["serve"][name]

\* C5 as claimed: reading googleAnalyticsId directly on the analytics block
\* yields the identifier.
C5_IdDirectlyOnAnalytics ==
  \A p \in Procs : Loaded(p) =>
    GetPath(exports[p], <<"analytics", "googleAnalyticsId">>).t = "string"

\* C5: the identifier is at analytics.googleAnalytics.googleAnalyticsId; the
\* analytics block itself has no googleAnalyticsId field.
C5_IdUnderGoogleAnalytics ==
  \A p \in Procs : Loaded(p) =>
    /\ GetPath(exports[p], <<"analytics", "googleAnalytics", "googleAnalyticsId">>)
         = Str("G-9WRM2899TP")
    /\ ~HasOwn(Get(exports[p], "analytics"), "googleAnalyticsId")
    /\ GetPath(exports[p], <<"analytics", "googleAnalyticsId">>) = Undefined

\* C5 witness: a loaded record whose analytics block holds the googleAnalytics
\* block.
C5_Witness ==
  /\ Loaded("build")
  /\ Keys(Get(exports["build"], "analytics")) = {"googleAnalytics"}

\* C6: a step that loads the configuration in a process changes neither the
\* environment nor any other state: the other process, the content entries and
\* the Array program's heap and variables.
C6_LoadHasNoSideEffects ==
  [][\A p \in Procs : (pc[p] = "idle" /\ pc'[p] # "idle") =>
       /\ env' = env
       /\ \A q \in Procs \ {p} :
            pc'[q] = pc[q] /\ exports'[q] = exports[q] /\ loadEnv'[q] = loadEnv[q]
       /\ allBlogs' = allBlogs
       /\ heap' = heap /\ arrs' = arrs /\ last' = last]_vars

\* C6 witness: a process has loaded while the repository variable was unset,
\* and the variable is still unset.
C6_Witness ==
  /\ Loaded("build") /\ pc["serve"] = "idle"
  /\ env = loadEnv["build"]
  /\ env["NEXT_PUBLIC_GISCUS_REPO"] = Undefined

GiscusKeys ==
  {"repo", "repositoryId", "category", "categoryId",
   "mapping", "reactions", "metadata", "theme", "darkTheme"}

\* C7: comments selects giscus and carries giscusConfig with the repository
\* identifiers, the mapping, the reactions and metadata toggles and the theme
\* names; search selects kbar and carries kbarConfig.searchDocumentsPath;
\* newsletter selects a provider and carries nothing else.
C7_ProvidersCarryTheirConfiguration ==
  \A p \in Procs : Loaded(p) =>
    LET commentsBlock   == Get(exports[p], "comments")
        giscusBlock     == Get(commentsBlock, "giscusConfig")
        searchBlock     == Get(exports[p], "search")
        kbarBlock       == Get(searchBlock, "kbarConfig")
        newsletterBlock == Get(exports[p], "newsletter")
    IN  /\ Get(commentsBlock, "provider") = Str("giscus")
        /\ HasOwn(commentsBlock, "giscusConfig")
        /\ GiscusKeys \subseteq Keys(giscusBlock)
        /\ \A k \in GiscusKeys \ {GiscusField[name] : name \in GiscusVars} :
             Get(giscusBlock, k).t = "string"
        /\ Get(searchBlock, "provider") = Str("kbar")
        /\ HasOwn(kbarBlock, "searchDocumentsPath")
        /\ Get(kbarBlock, "searchDocumentsPath").t = "string"
        /\ Get(newsletterBlock, "provider").t = "string"
        /\ Keys(newsletterBlock) = {"provider"}

\* C7 witness: a record loaded with all four repository identifiers set.
C7_Witness ==
  /\ Loaded("serve")
  /\ \A name \in GiscusVars :
       Get(GiscusConfigOf("serve"), GiscusField[name]).t = "string"

RequiredKeys == {"title", "date", "tags", "draft", "summary", "images"}

\* A document of the content file format: a front-matter block that declares
\* every required key, followed by body markup.
Conforms(doc) ==
  /\ FrontMatterEnd(doc) # 0
  /\ \A k \in RequiredKeys : Declares(doc, k)
  /\ \E i \in 1..Len(Body(doc)) : Body(doc)[i].kind = "text"

NoDuplicateTags(doc) ==
  /\ Declares(doc, "tags")
  /\ Cardinality(Range(FieldValue(doc, "tags"))) = Len(FieldValue(doc, "tags"))

\* C9: every document the pipeline has read conforms to the content file
\* format, its tags contain no duplicate, and no two entries share a slug or a
\* title.
C9_DocumentsConform ==
  /\ \A doc \in Documents :
       (\E i \in 1..Len(allBlogs) : allBlogs[i].slug = doc.path) =>
         Conforms(doc) /\ NoDuplicateTags(doc)
  /\ \A i, j \in 1..Len(allBlogs) :
       i # j => /\ allBlogs[i].slug # allBlogs[j].slug
                /\ allBlogs[i].title # allBlogs[j].title

\* C9 witness: every document of the repository has been read.
C9_Witness ==
  /\ Len(allBlogs) = Cardinality(Documents)
  /\ Cardinality(Documents) = 5

\* C10: when make(n) returns for an n >= 0, the Array has length n and every
\* element get(arr, i), 0 <= i <= n-1, is 0.
C10_MakeReturnsZeroedArray ==
  (last.op = "make" /\ last.result.type = "normal" /\ last.args[1] >= 0) =>
    LET arr == last.result.value
        n   == last.args[1]
    IN  /\ length(arr) = n
        /\ \A i \in 0..(n - 1) : get(heap, arr, i) = Normal(0)

\* C10 witness: make has returned an Array of the largest length while the
\* other Array holds a non-zero element.
C10_Witness ==
  /\ last.op = "make" /\ last.result.type = "normal"
  /\ last.args[1] = MaxLen
  /\ \E x \in ArrVars : \E i \in 0..MaxLen : get(heap, arrs[x], i) = Normal(MaxVal)

\* The elements of the caller's Array x in heap h, as a sequence.
Elements(h, x) ==
  IF arrs[x]._ptr = nullptr THEN <<>> ELSE SubSeq(h[arrs[x]._ptr].cells, 1, arrs[x]._len)

\* A step that is the call op on the Array x.
IsCall(op, x) == last'.op = op /\ last'.args[1] = x

\* C11: for an Array of length n, get(arr, i) and set(arr, i, v) with i < 0 or
\* i >= n raise out_of_range and leave the length and every element of every
\* Array as they were; with 0 <= i <= n-1 neither call raises.
C11_IndexOutOfRangeIsRejected ==
  [][\A x \in ArrVars :
       (IsCall("get", x) \/ IsCall("set", x)) =>
         LET n == length(arrs[x])
             i == last'.args[2]
         IN  IF i < 0 \/ i >= n
             THEN /\ last'.result = Throw("out_of_range")
                  /\ arrs' = arrs
                  /\ heap' = heap
             ELSE last'.result.type = "normal"]_vars

\* C11 witness: set was called with the index n on a non-empty Array that holds
\* a non-zero element, and raised.
C11_Witness ==
  /\ last.op = "set" /\ last.result = Throw("out_of_range")
  /\ length(arrs[last.args[1]]) = MaxLen
  /\ last.args[2] = MaxLen
  /\ get(heap, arrs[last.args[1]], MaxLen - 1) = Normal(MaxVal)

\* C12: copy(src, dst) returns k = min(length(src), length(dst)), and
\* afterwards dst[i] = src[i] for every i < k, whichever of the two is longer.
C12_CopyCopiesTheCommonPrefix ==
  last.op = "copy" =>
    LET src == arrs[last.args[1]]
        dst == arrs[last.args[2]]
        k   == Min(length(src), length(dst))
    IN  /\ last.result = Normal(k)
        /\ \A i \in 0..(k - 1) : get(heap, dst, i) = get(heap, src, i)

\* C12 witness: a copy from a shorter source that holds a non-zero element into
\* a longer destination.
C12_Witness ==
  /\ last.op = "copy" /\ last.result = Normal(1)
  /\ length(arrs[last.args[1]]) = 1
  /\ length(arrs[last.args[2]]) = 2
  /\ get(heap, arrs[last.args[1]], 0) = Normal(MaxVal)
  /\ get(heap, arrs[last.args[2]], 0) = Normal(MaxVal)
  /\ get(heap, arrs[last.args[2]], 1) = Normal(0)

\* C13: copy(src, dst) leaves unchanged every element of src, the lengths of
\* both Arrays, and every element of dst at an index >= min(length(src),
\* length(dst)).
C13_CopyLeavesTheRestUnchanged ==
  [][\A x, y \in ArrVars :
       (IsCall("copy", x) /\ last'.args[2] = y) =>
         LET k == Min(length(arrs[x]), length(arrs[y]))
         IN  /\ arrs' = arrs
             /\ Elements(heap', x) = Elements(heap, x)
             /\ \A i \in k..(length(arrs[y]) - 1) :
                  Elements(heap', y)[i + 1] = Elements(heap, y)[i + 1]]_vars

\* C13 witness: a copy from a shorter source into a longer destination whose
\* element behind the copied ones is non-zero.
C13_Witness ==
  /\ last.op = "copy" /\ last.result = Normal(1)
  /\ length(arrs[last.args[1]]) = 1
  /\ length(arrs[last.args[2]]) = 2
  /\ get(heap, arrs[last.args[1]], 0) = Normal(0)
  /\ get(heap, arrs[last.args[2]], 0) = Normal(0)
  /\ get(heap, arrs[last.args[2]], 1) = Normal(MaxVal)

\* C14: when clone(arr) returns, the Array it returns has the length and the
\* elements of arr in a block of its own; two Arrays never share a block, and a
\* set on one Array (the source or the clone, the source or the destination of
\* a copy) changes no element and no length of the other.
C14_CloneIsSeparate ==
  /\ [](/\ (last.op = "clone" /\ last.result.type = "normal") =>
             LET src == last.args[1]
                 cloning == last.args[2]
             IN  /\ arrs[cloning] = last.result.value
                 /\ length(arrs[cloning]) = length(arrs[src])
                 /\ Elements(heap, cloning) = Elements(heap, src)
                 /\ arrs[cloning]._ptr # arrs[src]._ptr
          /\ \A x, y \in ArrVars :
               (x # y /\ arrs[x]._ptr # nullptr) => arrs[x]._ptr # arrs[y]._ptr)
  /\ [][\A x \in ArrVars : IsCall("set", x) =>
          \A y \in ArrVars \ {x} :
            arrs'[y] = arrs[y] /\ Elements(heap', y) = Elements(heap, y)]_vars

\* C14 witness: a set has changed an element of one of two Arrays of the
\* largest length, and the two now differ in that element only.
C14_Witness ==
  /\ last.op = "set" /\ last.result.type = "normal"
  /\ \A x \in ArrVars : length(arrs[x]) = MaxLen
  /\ \E i \in 0..(MaxLen - 1) :
       /\ get(heap, arrs["a"], i) # get(heap, arrs["b"], i)
       /\ \A j \in 0..(MaxLen - 1) \ {i} :
            get(heap, arrs["a"], j) = get(heap, arrs["b"], j)

C16_AppendAddsOneElement ==
  [][(scall'.op = "append" /\ scall'.result.type = "normal") =>
       LET v == scall'.args[1]
           r == scall'.result.value
       IN  /\ slice' = r
           /\ r.len = slice.len + 1
           /\ get_value(mem', r, r.len - 1) = Normal(v)
           /\ \A j \in 0..(slice.len - 1) :
                get_value(mem', r, j) = get_value(mem, slice, j)
           /\ IF slice.len = slice.cap
              THEN /\ r.cap = Max(2 * slice.cap, 1)
                   /\ mem'[r.data].live
                   /\ Len(mem'[r.data].cells) = r.cap
              ELSE /\ r.cap = slice.cap
                   /\ r.data = slice.data]_vars

\* C16 witness: an append to a full Slice of capacity 2 has returned a Slice of
\* capacity 4 that holds the two old elements and the new one.
C16_Witness ==
  /\ scall.op = "append" /\ scall.result = Normal(slice)
  /\ slice.len = 3 /\ slice.cap = 4
  /\ to_string(mem, slice) = <<MaxVal, 0, MaxVal>>

\* The Slices the demo prints as "slice capacity changed".
CapacityChanges == SelectSeq(cout, LAMBDA l : l.text = "slice capacity changed")

Iota(n) == [j \in 1..n |-> j - 1]

\* C17: in the demo (make(0, 1), then append of 0..9 in order) the capacity
\* changes at most four times, at the appends made at lengths 1, 2, 4 and 8, to
\* 2, 4, 8 and 16, the data being carried over each time; when the loop is
\* over it has changed exactly four times and the Slice has len=10, cap=16 and
\* data [0..9]; set_value(s, 0, 100) then changes element 0 only.
C17_DemoDoublesFourTimes ==
  /\ Len(CapacityChanges) <= 4
  /\ \A k \in 1..Len(CapacityChanges) :
       CapacityChanges[k].value =
         [len |-> 2^(k - 1) + 1, cap |-> 2^k, data |-> Iota(2^(k - 1) + 1)]
  /\ (main.pc = "loop" /\ main.i = 10) =>
       /\ Len(CapacityChanges) = 4
       /\ Show(mem, slice) = [len |-> 10, cap |-> 16, data |-> Iota(10)]
  /\ main.pc = "done" =>
       /\ Len(CapacityChanges) = 4
       /\ \E k \in 1..Len(cout) :
            /\ cout[k].text = "slice"
            /\ cout[k].value = [len |-> 10, cap |-> 16, data |-> Iota(10)]
       /\ Show(mem, slice) =
            [len |-> 10, cap |-> 16, data |-> [Iota(10) EXCEPT ![1] = 100]]

\* C17 witness: the demo has run to its end, every growth having moved the
\* backing array.
C17_Witness ==
  /\ main.pc = "done"
  /\ slice.len = 10 /\ slice.cap = 16
  /\ work.copied = 15

\* C18: for a Slice that started with length 0 and capacity 1, after N >= 1
\* appends the number of elements copied to new backing arrays is at most 2N,
\* and the total work, one write per append plus the copies, at most 3N.
C18_GrowthCopiesAtMostTwiceTheAppends ==
  (work.len = 0 /\ work.cap = 1 /\ work.appends >= 1) =>
    /\ work.copied <= 2 * work.appends
    /\ work.appends + work.copied <= 3 * work.appends

\* C18 witness: nine appends to a Slice made with length 0 and capacity 1,
\* whose growths at lengths 1, 2, 4 and 8 all moved the backing array.
C18_Witness ==
  /\ work.len = 0 /\ work.cap = 1
  /\ work.appends = 9
  /\ work.copied = 15
  /\ slice.len = work.appends

\* The record with the four fields read from the environment left out.
WithoutGiscusIds(o) ==
  LET c == Get(o, "comments")
      g == Get(c, "giscusConfig")
  IN  Obj([o.props EXCEPT !.comments =
             Obj([c.props EXCEPT !.giscusConfig =
                    Obj([k \in Keys(g) \ {GiscusField[name] : name \in GiscusVars} |->
                           g.props[k]])])])

\* C19: two loads in environments that agree on the four NEXT_PUBLIC_GISCUS_*
\* variables yield identical records, whatever else differs in the
\* environment; any two loads differ in at most the fields repo, repositoryId,
\* category and categoryId of comments.giscusConfig.
C19_OnlyGiscusIdsDependOnEnvironment ==
  \A p, q \in Procs :
    (Loaded(p) /\ Loaded(q)) =>
      /\ (\A name \in GiscusVars : loadEnv[p][name] = loadEnv[q][name]) =>
           exports[p] = exports[q]
      /\ WithoutGiscusIds(exports[p]) = WithoutGiscusIds(exports[q])

\* C19 witness: two loads in environments that agree on the four variables,
\* one of them set, and differ in ANALYZE.
C19_Witness ==
  /\ Loaded("build") /\ Loaded("serve")
  /\ \A name \in GiscusVars : loadEnv["build"][name] = loadEnv["serve"][name]
  /\ loadEnv["build"]["NEXT_PUBLIC_GISCUS_REPO"] # Undefined
  /\ loadEnv["build"]["ANALYZE"] # loadEnv["serve"]["ANALYZE"]

\* C20: each of the fields repo, repositoryId, category and categoryId holds
\* exactly what its own variable held at the load: the value unchanged when the
\* variable was set, undefined (no fallback) when it was not; every other field
\* of giscusConfig holds its literal.
C20_EachVariableFillsItsOwnField ==
  \A p \in Procs : Loaded(p) =>
    /\ \A name \in GiscusVars :
         Get(GiscusConfigOf(p), GiscusField[name]) = loadEnv[p][name]
    /\ [k \in Keys(GiscusConfigOf(p)) \ {GiscusField[name] : name \in GiscusVars} |->
          Get(GiscusConfigOf(p), k)]
         = [mapping   |-> Str("pathname"), reactions |-> Str("1"),
            metadata  |-> Str("0"), theme |-> Str("light"),
            darkTheme |-> Str("transparent_dark"), themeURL |-> Str(""),
            lang      |-> Str("en")]

\* C20 witness: a load with the four variables set to four different values,
\* each found in its own field.
C20_Witness ==
  /\ Loaded("build")
  /\ \A name \in GiscusVars : loadEnv["build"][name] # Undefined
  /\ \A n1, n2 \in GiscusVars :
       n1 # n2 => Get(GiscusConfigOf("build"), GiscusField[n1])
                    # Get(GiscusConfigOf("build"), GiscusField[n2])

====
